---------------------------- MODULE Spec2Model ----------------------------
(***************************************************************************)
(* Verification model of the RSI strategy runner of the CLI trading bot.   *)
(*                                                                         *)
(* Spec models one RSIRunner (src/src/rsi-runner.ts) together with its     *)
(* PositionManager (src/src/utils/candle-aggregator.ts:49-83), the pure    *)
(* helpers calculateRSI / toQtyFromUsd / getMaxMatchingPrices              *)
(* (src/src/utils/candle-aggregator.ts:88-147), the executor it awaits     *)
(* (src/src/execution/executor.ts) and the account-feed handlers that      *)
(* cli.ts registers for it (src/src/cli.ts:324-345).                       *)
(*                                                                         *)
(* onCandle is an async function: it runs synchronously up to the await of *)
(* executor.buy / executor.sell and resumes, after any number of other     *)
(* callbacks, when that promise settles.  OnCandle is the synchronous      *)
(* part; ExecutorReturns, TradeExecutorFails and ExecutorThrows are the    *)
(* continuations.                                                          *)
(*                                                                         *)
(* Numbers.  Prices and USD amounts are integers.  Quantities are integers *)
(* counted in fine units; Fine fine units make one unit of the last digit  *)
(* kept by quantityScale, so that toFixed and Math.floor really round.     *)
(* The oscillator value is kept as an exact fraction n/d (the source uses  *)
(* IEEE doubles; comparisons with the bands are done on the fraction).     *)
(* toQtyFromUsd rounds as the source does, in binary floating point of     *)
(* MantBits significant bits (Fl).                                         *)
(*                                                                         *)
(* SpecNum calls the helpers on arguments of their own, SpecSizing feeds   *)
(* the runner candles with a close of 0, SpecStop follows a runner through *)
(* rsi:enable and rsi:disable with the sockets of its LiquidityFeed        *)
(* (src/src/feeds/listenkey-feed-bus.ts:165-227).                          *)
(* SpecBus follows the ListenKeyFeedBus and its sockets                    *)
(* (src/src/feeds/listenkey-feed-bus.ts:94-151), SpecMode runs the runner  *)
(* under a MODE that is neither paper nor real, SpecClock gives the        *)
(* aggregator ticks stamped by a clock, and SpecFlush joins the aggregator *)
(* to the runner from start() to stop().                                   *)
(***************************************************************************)
EXTENDS Integers, Sequences, FiniteSets

\* ------------------------------------------------------------- bounds
\* Executor calls awaited at the same time.
MaxAwaiting == 2
\* Executor calls followed by SpecHist, which keeps the history of every call.
MaxOrders == 3
\* Retention length of the close series (2000 in the source).
MaxCloses == 3
\* Fine units per unit of the last kept quantity digit.
Fine == 2
\* Significant bits of a Number (53 in the source's doubles).
MantBits == 10

\* ------------------------------------------------- configured parameters
Period == 2
Low == 30
High == 70
NotionalUsd == 2
QuantityScale == 0

\* ------------------------------------------------------- input domains
Prices == {1, 2}
NetQtys == {-3, 0, 2}
Modes == {"paper", "real"}
MaxOrdersChoices == {0, 1, 2}
Symbols == {"BTC", "ETH"}
Symbol == "BTC"
Statuses == {"NEW", "PARTIALLY_FILLED", "FILLED", "REJECTED", "CANCELED", "EXPIRED"}
TERMINAL_SET == {"FILLED", "REJECTED", "CANCELED", "EXPIRED"}

VARIABLES
    mode,               \* process.env.MODE, read by the runner and the executor
    maxOrdersPerCycle,  \* PositionManager.maxOrdersPerCycle
    closes,             \* RSIRunner.closes
    pm,                 \* the PositionManager fields
    calls,              \* the executor calls onCandle is awaiting, oldest first
    submitted,          \* the executor call initiated by the last step, if any
    settled,            \* how the last step settled an awaited call, if it did
    orders,             \* history (SpecHist): every call made, in call order
    subsInBand,         \* history (SpecHist): calls since the last band switch
    hot,                \* history (SpecHist): bands with a call since the last
                        \* neutral candle
    agg,                \* RSIRunner.agg, the CandleAggregator (SpecAgg)
    num,                \* the last call of a helper: its arguments and what
                        \* it returned (SpecNum)
    feed,               \* the runner's LiquidityFeed, its handle on it and the
                        \* CLI's registry entry (SpecStop)
    lk,                 \* the ListenKeyFeedBus of rsi:enable (SpecBus)
    now                 \* Date.now() at the last tick: LiquidityFeed stamps a
                        \* tick when its frame arrives (SpecClock)

progVars == <<mode, maxOrdersPerCycle, closes, pm, calls, submitted, settled>>
histVars == <<orders, subsInBand, hot>>
vars == <<mode, maxOrdersPerCycle, closes, pm, calls, submitted, settled, orders,
         subsInBand, hot, agg, num, feed, lk, now>>

\* ------------------------------------------------- PositionManager
PmInit == [side |-> "FLAT", qtyAbs |-> 0, cycleSide |-> "none",
           ordersInCycle |-> 0, armed |-> TRUE, inflight |-> FALSE]

Min(a, b) == IF a <= b THEN a ELSE b

\* Mutant of enterBand: a band switch keeps the count of the band left.
enterBand_KeepsCount(p, side) ==
    IF p.cycleSide # side
    THEN [p EXCEPT !.cycleSide = side, !.armed = TRUE]
    ELSE p

enterBand(p, side) ==
    IF p.cycleSide # side
    THEN [p EXCEPT !.cycleSide = side, !.ordersInCycle = 0, !.armed = TRUE]
    ELSE p

\* Mutant of rearmFromNeutral: the neutral zone also starts a new cycle.
rearmFromNeutral_ResetsCycle(p) == [p EXCEPT !.armed = TRUE, !.ordersInCycle = 0]

rearmFromNeutral(p) == [p EXCEPT !.armed = TRUE]

\* Mutant of consumeAndDisarm: the increment is not capped.
consumeAndDisarm_NoCap(p, maxOrders) ==
    [p EXCEPT !.ordersInCycle = p.ordersInCycle + 1, !.armed = FALSE]

consumeAndDisarm(p, maxOrders) ==
    [p EXCEPT !.ordersInCycle = Min(p.ordersInCycle + 1, maxOrders), !.armed = FALSE]

setFlat(p) == [p EXCEPT !.side = "FLAT", !.qtyAbs = 0]
setLong(p, q) == [p EXCEPT !.side = "LONG", !.qtyAbs = q]
setShort(p, q) == [p EXCEPT !.side = "SHORT", !.qtyAbs = q]

Abs(x) == IF x < 0 THEN -x ELSE x

\* Mutant of applyPosition: a zero net quantity is taken for a LONG.
applyPosition_ZeroIsLong(p, netQty) ==
    IF netQty >= 0 THEN setLong(p, Abs(netQty)) ELSE setShort(p, Abs(netQty))

applyPosition(p, netQty) ==
    IF netQty = 0 THEN setFlat(p)
    ELSE IF netQty > 0 THEN setLong(p, Abs(netQty))
    ELSE setShort(p, Abs(netQty))

\* Mutant of clearInflight: the flag is toggled.
clearInflight_Toggles(p) == [p EXCEPT !.inflight = ~p.inflight]

clearInflight(p) == [p EXCEPT !.inflight = FALSE]

\* ------------------------------------------------- oscillator
\* closes[i] - closes[i-1] of the source, for the 1-based pair (i, i+1).
Diff(cl, i) == cl[i + 1] - cl[i]

RECURSIVE SeedGains(_, _)
SeedGains(cl, i) ==
    IF i = 0 THEN 0
    ELSE SeedGains(cl, i - 1) + (IF Diff(cl, i) >= 0 THEN Diff(cl, i) ELSE 0)

RECURSIVE SeedLosses(_, _)
SeedLosses(cl, i) ==
    IF i = 0 THEN 0
    ELSE SeedLosses(cl, i - 1) + (IF Diff(cl, i) >= 0 THEN 0 ELSE -Diff(cl, i))

RECURSIVE Pow(_, _)
Pow(b, e) == IF e = 0 THEN 1 ELSE b * Pow(b, e - 1)

\* Numerator of avgGain after the deltas 1..i, over the denominator
\* period^(i - period + 1).
RECURSIVE AvgGainNum(_, _, _)
AvgGainNum(cl, period, i) ==
    IF i = period THEN SeedGains(cl, period)
    ELSE AvgGainNum(cl, period, i - 1) * (period - 1)
         + (IF Diff(cl, i) > 0 THEN Diff(cl, i) ELSE 0) * Pow(period, i - period)

RECURSIVE AvgLossNum(_, _, _)
AvgLossNum(cl, period, i) ==
    IF i = period THEN SeedLosses(cl, period)
    ELSE AvgLossNum(cl, period, i - 1) * (period - 1)
         + (IF Diff(cl, i) < 0 THEN -Diff(cl, i) ELSE 0) * Pow(period, i - period)

\* null of the source: not enough closes yet.
RsiNull == [ok |-> FALSE, n |-> 0, d |-> 1]

calculateRSI_NoZeroLossCase(cl, period) ==
    IF Len(cl) < period + 1 THEN RsiNull
    ELSE LET avgGain == AvgGainNum(cl, period, Len(cl) - 1)
             avgLoss == AvgLossNum(cl, period, Len(cl) - 1)
         IN [ok |-> TRUE, n |-> 100 * avgGain, d |-> avgGain + avgLoss]

\* The value is the fraction n/d.
calculateRSI(cl, period) ==
    IF Len(cl) < period + 1 THEN RsiNull
    ELSE LET avgGain == AvgGainNum(cl, period, Len(cl) - 1)
             avgLoss == AvgLossNum(cl, period, Len(cl) - 1)
         IN IF avgLoss = 0 THEN [ok |-> TRUE, n |-> 100, d |-> 1]
            ELSE [ok |-> TRUE, n |-> 100 * avgGain, d |-> avgGain + avgLoss]

RsiGe(r, k) == r.n >= k * r.d
RsiLe(r, k) == r.n <= k * r.d
RsiGt(r, k) == r.n > k * r.d
RsiLt(r, k) == r.n < k * r.d
RsiNeutral(r) == RsiGe(r, Low) /\ RsiLe(r, High)

\* ------------------------------------------------- sizing and depth
\* Result of toQtyFromUsd when it throws.
InvalidSizing == -1

\* A Number is a binary floating-point value: MantBits significant bits
\* (53 in the source's doubles), rounded to nearest, ties to even. A value
\* is kept as the fraction n/d it stands for.
Half == Pow(2, MantBits - 1)

RoundHalfEven(n, d) ==
    LET q == n \div d
        r == n % d
    IN IF 2 * r > d \/ (2 * r = d /\ q % 2 = 1) THEN q + 1 ELSE q

RECURSIVE ExpUp(_, _)
ExpUp(n, d) == IF n < d * 2 * Half THEN 0 ELSE 1 + ExpUp(n, 2 * d)

RECURSIVE ExpDown(_, _)
ExpDown(n, d) == IF n >= d * Half THEN 0 ELSE 1 + ExpDown(2 * n, d)

\* The Number nearest to n/d, for n >= 0 and d > 0; an integer below
\* 2^MantBits is a Number.
Fl(n, d) ==
    IF n % d = 0 /\ n \div d < 2 * Half THEN [n |-> n \div d, d |-> 1]
    ELSE IF n >= d * Half
         THEN LET w == Pow(2, ExpUp(n, d))
              IN [n |-> RoundHalfEven(n, d * w) * w, d |-> 1]
         ELSE LET w == Pow(2, ExpDown(n, d))
              IN [n |-> RoundHalfEven(n * w, d), d |-> w]

\* x.toFixed(digits) for a Number x >= 0, as a count of units of the last
\* digit: the nearest one, the larger of two equally near.
NumberToFixed(x, digits) ==
    (2 * x.n * Pow(10, digits) + x.d) \div (2 * x.d)

\* The returned decimal string, in fine units.
toQtyFromUsd(notionalUsd, price, quantityScale) ==
    IF notionalUsd <= 0 \/ price <= 0 THEN InvalidSizing
    ELSE LET raw == Fl(notionalUsd, price)
             factor == Pow(10, quantityScale)
             scaled == Fl(raw.n * factor, raw.d)
             floored == Fl(scaled.n \div scaled.d, factor)
         IN NumberToFixed(floored, quantityScale) * Fine

\* Number(x.toFixed(scale)) for x >= 0 in fine units: nearest unit, ties up.
toFixed(x) == ((2 * x + Fine) \div (2 * Fine)) * Fine

\* The {} that getMaxMatchingPrices returns for a side without a match;
\* Number(level?.p || '0') is 0 for it.
NoLevel == [p |-> 0, q |-> 0]

RECURSIVE FindLevel(_, _, _)
FindLevel(levels, quantity, i) ==
    IF i > Len(levels) THEN NoLevel
    ELSE IF levels[i].q >= quantity THEN levels[i]
    ELSE FindLevel(levels, quantity, i + 1)

\* Mutant of getMaxMatchingPrices: each side is looked up in the other.
getMaxMatchingPrices_SidesSwapped(orderBook, quantity) ==
    [bid |-> FindLevel(orderBook.asks, quantity, 1),
     ask |-> FindLevel(orderBook.bids, quantity, 1)]

getMaxMatchingPrices(orderBook, quantity) ==
    [bid |-> FindLevel(orderBook.bids, quantity, 1),
     ask |-> FindLevel(orderBook.asks, quantity, 1)]

\* ------------------------------------------------- candles fed to onCandle
\* Order books have two levels a side, best price first (bids 2 then 1, asks
\* 1 then 2); a side is given by the quantities of its two levels.
SideQtys == {<<0, 0>>, <<2, 4>>, <<4, 2>>}
BidSide(qs) == <<[p |-> 2, q |-> qs[1]], [p |-> 1, q |-> qs[2]]>>
AskSide(qs) == <<[p |-> 1, q |-> qs[1]], [p |-> 2, q |-> qs[2]]>>
Books == {[bids |-> BidSide(b), asks |-> AskSide(a)] : b \in SideQtys, a \in SideQtys}
Candles == [close : Prices, orderBook : Books]

\* ------------------------------------------------- RSIRunner.onCandle
\* What the synchronous part of onCandle hands back: the PositionManager
\* after it and the executor call it awaits, if any.  A call records the
\* gate values read from the PositionManager on the line that sets inflight.
NoCall == [kind |-> "none", side |-> "none", qty |-> 0, price |-> 0,
           band |-> "none", ordersAt |-> 0, armedAt |-> FALSE, inflightAt |-> FALSE]

Call(p, kind, side, qty, price) ==
    [kind |-> kind, side |-> side, qty |-> qty, price |-> price,
     band |-> p.cycleSide, ordersAt |-> p.ordersInCycle,
     armedAt |-> p.armed, inflightAt |-> p.inflight]

\* Mutant of tradeOpen: inflight is set before the quantity is sized.
tradeOpen_InflightBeforeSizing(p, c, side) ==
    LET qty == toQtyFromUsd(NotionalUsd, c.close, QuantityScale)
        m == getMaxMatchingPrices(c.orderBook, qty)
    IN IF qty = InvalidSizing
       THEN [pm |-> [p EXCEPT !.inflight = TRUE], call |-> NoCall]
       ELSE IF side = "BUY" /\ m.ask.p <= 0 THEN [pm |-> p, call |-> NoCall]
       ELSE IF side = "SELL" /\ m.bid.p <= 0 THEN [pm |-> p, call |-> NoCall]
       ELSE [pm |-> [p EXCEPT !.inflight = TRUE],
             call |-> Call(p, "open", side, qty,
                           IF side = "BUY" THEN m.ask.p ELSE m.bid.p)]

\* toQtyFromUsd throws before the try block: tradeOpen, and onCandle with
\* it, ends there.
tradeOpen(p, c, side) ==
    LET qty == toQtyFromUsd(NotionalUsd, c.close, QuantityScale)
        m == getMaxMatchingPrices(c.orderBook, qty)
    IN IF qty = InvalidSizing THEN [pm |-> p, call |-> NoCall]
       ELSE IF side = "BUY" /\ m.ask.p <= 0 THEN [pm |-> p, call |-> NoCall]
       ELSE IF side = "SELL" /\ m.bid.p <= 0 THEN [pm |-> p, call |-> NoCall]
       ELSE [pm |-> [p EXCEPT !.inflight = TRUE],
             call |-> Call(p, "open", side, qty,
                           IF side = "BUY" THEN m.ask.p ELSE m.bid.p)]

tradeFlatten(p, c, sideToClose, maxOrders) ==
    IF p.qtyAbs <= 0 THEN [pm |-> consumeAndDisarm(p, maxOrders), call |-> NoCall]
    ELSE LET qty == toFixed(p.qtyAbs)
             m == getMaxMatchingPrices(c.orderBook, qty)
         IN IF sideToClose = "LONG" /\ m.ask.p <= 0 THEN [pm |-> p, call |-> NoCall]
            ELSE IF sideToClose = "SHORT" /\ m.bid.p <= 0 THEN [pm |-> p, call |-> NoCall]
            ELSE [pm |-> [p EXCEPT !.inflight = TRUE],
                  call |-> IF sideToClose = "LONG"
                           THEN Call(p, "flatten", "SELL", qty, m.bid.p)
                           ELSE Call(p, "flatten", "BUY", qty, m.ask.p)]

\* Mutant of upperBand: the armed gate is missing.
upperBand_NoArmedGate(p, maxOrders, c) ==
    LET p1 == enterBand(p, "upper") IN
    IF p1.ordersInCycle = 0 /\ p1.side = "LONG"
    THEN tradeFlatten(p1, c, "LONG", maxOrders)
    ELSE IF p1.ordersInCycle < maxOrders THEN tradeOpen(p1, c, "SELL")
    ELSE [pm |-> p1, call |-> NoCall]

\* Mutant of upperBand: an open order needs no free slot.
upperBand_NoCapGate(p, maxOrders, c) ==
    LET p1 == enterBand(p, "upper") IN
    IF ~p1.armed THEN [pm |-> p1, call |-> NoCall]
    ELSE IF p1.ordersInCycle = 0 /\ p1.side = "LONG"
         THEN tradeFlatten(p1, c, "LONG", maxOrders)
    ELSE tradeOpen(p1, c, "SELL")

\* The gated branch for rsi > high, after the paper shortcut.
upperBand(p, maxOrders, c) ==
    LET p1 == enterBand(p, "upper") IN
    IF ~p1.armed THEN [pm |-> p1, call |-> NoCall]
    ELSE IF p1.ordersInCycle = 0 /\ p1.side = "LONG"
         THEN tradeFlatten(p1, c, "LONG", maxOrders)
    ELSE IF p1.ordersInCycle < maxOrders THEN tradeOpen(p1, c, "SELL")
    ELSE [pm |-> p1, call |-> NoCall]

\* The gated branch for rsi < low, after the paper shortcut.
lowerBand(p, maxOrders, c) ==
    LET p1 == enterBand(p, "lower") IN
    IF ~p1.armed THEN [pm |-> p1, call |-> NoCall]
    ELSE IF p1.ordersInCycle = 0 /\ p1.side = "SHORT"
         THEN tradeFlatten(p1, c, "SHORT", maxOrders)
    ELSE IF p1.ordersInCycle < maxOrders THEN tradeOpen(p1, c, "BUY")
    ELSE [pm |-> p1, call |-> NoCall]

\* Mutant of onCandleSync: the warm-up return is missing.
onCandleSync_NoWarmUp(p, md, maxOrders, cl, c) ==
    LET rsi == calculateRSI(cl, Period) IN
    IF RsiGe(rsi, Low) /\ RsiLe(rsi, High)
    THEN [pm |-> rearmFromNeutral(p), call |-> NoCall]
    ELSE IF p.inflight THEN [pm |-> p, call |-> NoCall]
    ELSE IF RsiGt(rsi, High) THEN
        IF md = "paper"
        THEN [pm |-> p,
              call |-> Call(p, "paper", "SELL", 0, getMaxMatchingPrices(c.orderBook, 0).bid.p)]
        ELSE upperBand(p, maxOrders, c)
    ELSE IF RsiLt(rsi, Low) THEN
        IF md = "paper"
        THEN [pm |-> p,
              call |-> Call(p, "paper", "BUY", 0, getMaxMatchingPrices(c.orderBook, 0).ask.p)]
        ELSE lowerBand(p, maxOrders, c)
    ELSE [pm |-> p, call |-> NoCall]

\* onCandle up to its first await; cl is the close series after the push of
\* c.close.
\* Mutant of onCandleSync: with an order in flight the band is still entered.
onCandleSync_EntersBandInflight(p, md, maxOrders, cl, c) ==
    LET rsi == calculateRSI(cl, Period) IN
    IF ~rsi.ok THEN [pm |-> p, call |-> NoCall]
    ELSE IF RsiGe(rsi, Low) /\ RsiLe(rsi, High)
         THEN [pm |-> rearmFromNeutral(p), call |-> NoCall]
    ELSE IF p.inflight
         THEN [pm |-> IF md = "paper" THEN p
                      ELSE enterBand(p, IF RsiGt(rsi, High) THEN "upper" ELSE "lower"),
               call |-> NoCall]
    ELSE IF RsiGt(rsi, High) THEN
        IF md = "paper"
        THEN [pm |-> p,
              call |-> Call(p, "paper", "SELL", 0, getMaxMatchingPrices(c.orderBook, 0).bid.p)]
        ELSE upperBand(p, maxOrders, c)
    ELSE IF RsiLt(rsi, Low) THEN
        IF md = "paper"
        THEN [pm |-> p,
              call |-> Call(p, "paper", "BUY", 0, getMaxMatchingPrices(c.orderBook, 0).ask.p)]
        ELSE lowerBand(p, maxOrders, c)
    ELSE [pm |-> p, call |-> NoCall]

\* Mutant of onCandleSync: the paper test of the two bands is missing.
onCandleSync_NoPaperBranch(p, md, maxOrders, cl, c) ==
    LET rsi == calculateRSI(cl, Period) IN
    IF ~rsi.ok THEN [pm |-> p, call |-> NoCall]
    ELSE IF RsiGe(rsi, Low) /\ RsiLe(rsi, High)
         THEN [pm |-> rearmFromNeutral(p), call |-> NoCall]
    ELSE IF p.inflight THEN [pm |-> p, call |-> NoCall]
    ELSE IF RsiGt(rsi, High) THEN upperBand(p, maxOrders, c)
    ELSE IF RsiLt(rsi, Low) THEN lowerBand(p, maxOrders, c)
    ELSE [pm |-> p, call |-> NoCall]

onCandleSync(p, md, maxOrders, cl, c) ==
    LET rsi == calculateRSI(cl, Period) IN
    IF ~rsi.ok THEN [pm |-> p, call |-> NoCall]
    ELSE IF RsiGe(rsi, Low) /\ RsiLe(rsi, High)
         THEN [pm |-> rearmFromNeutral(p), call |-> NoCall]
    ELSE IF p.inflight THEN [pm |-> p, call |-> NoCall]
    ELSE IF RsiGt(rsi, High) THEN
        IF md = "paper"
        THEN [pm |-> p,
              call |-> Call(p, "paper", "SELL", 0, getMaxMatchingPrices(c.orderBook, 0).bid.p)]
        ELSE upperBand(p, maxOrders, c)
    ELSE IF RsiLt(rsi, Low) THEN
        IF md = "paper"
        THEN [pm |-> p,
              call |-> Call(p, "paper", "BUY", 0, getMaxMatchingPrices(c.orderBook, 0).ask.p)]
        ELSE lowerBand(p, maxOrders, c)
    ELSE [pm |-> p, call |-> NoCall]

\* Mutant of pushClose: at the retention length the new close is dropped.
pushClose_DropsNewest(cl, x) ==
    IF Len(cl) + 1 > MaxCloses THEN cl ELSE Append(cl, x)

\* closes.push(c.close); if (closes.length > 2000) closes.shift()
pushClose(cl, x) ==
    IF Len(cl) + 1 > MaxCloses THEN Tail(Append(cl, x)) ELSE Append(cl, x)

Zone(r) ==
    IF ~r.ok THEN "warmup"
    ELSE IF RsiNeutral(r) THEN "neutral"
    ELSE IF RsiGt(r, High) THEN "upper" ELSE "lower"

\* ------------------------------------------------- the executor
\* What the awaited promise of TradeExecutor.buy / sell does when the HTTP
\* request is rejected or fails: the catch logs and returns null.
TradeExecutorOnFailure == "returned"

\* Mutant of afterAwait: the catch block does not release inflight.
afterAwait_CatchKeepsInflight(p, md, outcome, maxOrders) ==
    IF md = "paper" THEN p
    ELSE IF outcome = "returned" THEN consumeAndDisarm(p, maxOrders)
    ELSE p

\* The code after the await in tradeOpen / tradeFlatten ("gated") and in the
\* paper branch of onCandle.
afterAwait(p, md, outcome, maxOrders) ==
    IF md = "paper" THEN p
    ELSE IF outcome = "returned" THEN consumeAndDisarm(p, maxOrders)
    ELSE [p EXCEPT !.inflight = FALSE]

\* ------------------------------------------------- account feed handlers
OrderUpdates == [symbol : Symbols, status : Statuses]

\* Mutant of orderUpdateHandler: every status of the symbol clears inflight.
orderUpdateHandler_AnyStatus(p, u) ==
    IF u.symbol # Symbol THEN p ELSE clearInflight(p)

orderUpdateHandler(p, u) ==
    IF u.symbol # Symbol THEN p
    ELSE IF u.status \in TERMINAL_SET THEN clearInflight(p)
    ELSE p

PositionUpdates == [symbol : Symbols, netQty : NetQtys]

positionUpdateHandler(p, u) ==
    IF u.symbol # Symbol THEN p ELSE applyPosition(p, u.netQty)

\* ------------------------------------------------- CandleAggregator
\* Bounds of the tick stream: the largest timestamp, and the number of candle
\* objects the aggregator creates.
MaxTs == 4
MaxCandles == 3

\* intervalMs of the aggregator (candleMs of the runner).
IntervalMs == 2

TickPrices == {1, 2, 3}
TickBooks == {[bids |-> BidSide(<<4, 2>>), asks |-> AskSide(<<4, 2>>)],
              [bids |-> BidSide(<<0, 0>>), asks |-> AskSide(<<0, 0>>)]}
Ticks == [ts : 0..MaxTs, price : TickPrices, orderBook : TickBooks]

\* null of `cur`.  Candle objects are numbered in the order of their creation.
NoCandle == 0

\* The aggregator and what it has done to its surroundings:
\*   cur      the candle object this.cur refers to, or NoCandle
\*   objs     the candle objects still referred to: this.cur and the object
\*            handed to the last onClose (objects emitted earlier are out of
\*            the aggregator's reach)
\*   made     the number of candle objects created so far
\*   emitted  the onClose calls so far: the object passed, and this.cur and
\*            made as they were during the call
\*   snap     the content of the object passed to the last onClose, as it was
\*            during the call
AggInit == [cur |-> NoCandle, objs |-> <<>>, made |-> 0, emitted |-> <<>>,
            snap |-> <<>>]

Max(a, b) == IF a >= b THEN a ELSE b

\* this.onClose(this.cur)
onClose(a) ==
    [a EXCEPT !.emitted = Append(@, [id |-> a.cur, seen |-> a.cur, made |-> a.made]),
              !.snap = <<a.objs[a.cur]>>]

\* The objects within reach when this.cur becomes id (NoCandle for null).
Reach(a, id) ==
    ({id} \cup (IF a.emitted = <<>> THEN {} ELSE {a.emitted[Len(a.emitted)].id}))
        \ {NoCandle}

NewCandle(t) ==
    LET bucketStart == (t.ts \div IntervalMs) * IntervalMs
        bucketEnd == bucketStart + IntervalMs
    IN [start |-> bucketStart, end |-> bucketEnd, open |-> t.price,
        high |-> t.price, low |-> t.price, close |-> t.price,
        orderBook |-> t.orderBook]

\* Mutant of ingest: on a new bucket the candle object is reset in place
\* instead of being replaced by a new object.
ingest_ReusesObject(a, t) ==
    IF a.cur = NoCandle
    THEN [a EXCEPT !.cur = a.made + 1, !.made = a.made + 1,
                   !.objs = [i \in Reach(a, a.made + 1) |->
                                IF i = a.made + 1 THEN NewCandle(t) ELSE a.objs[i]]]
    ELSE IF t.ts >= a.objs[a.cur].end
    THEN [onClose(a) EXCEPT !.objs = [i \in Reach(onClose(a), a.cur) |-> NewCandle(t)]]
    ELSE [a EXCEPT !.objs[a.cur] =
              [@ EXCEPT !.high = Max(@, t.price), !.low = Min(@, t.price),
                        !.close = t.price, !.orderBook = t.orderBook]]

\* Mutant of ingest: a tick of the open bucket does not move the close.
ingest_KeepsClose(a, t) ==
    IF a.cur = NoCandle \/ t.ts >= a.objs[a.cur].end
    THEN LET b == IF a.cur # NoCandle THEN onClose(a) ELSE a
             id == b.made + 1
         IN [b EXCEPT !.cur = id, !.made = id,
                      !.objs = [i \in Reach(b, id) |->
                                   IF i = id THEN NewCandle(t) ELSE b.objs[i]]]
    ELSE [a EXCEPT !.objs[a.cur] =
              [@ EXCEPT !.high = Max(@, t.price), !.low = Min(@, t.price),
                        !.orderBook = t.orderBook]]

ingest(a, t) ==
    IF a.cur = NoCandle \/ t.ts >= a.objs[a.cur].end
    THEN LET b == IF a.cur # NoCandle THEN onClose(a) ELSE a
             id == b.made + 1
         IN [b EXCEPT !.cur = id, !.made = id,
                      !.objs = [i \in Reach(b, id) |->
                                   IF i = id THEN NewCandle(t) ELSE b.objs[i]]]
    ELSE [a EXCEPT !.objs[a.cur] =
              [@ EXCEPT !.high = Max(@, t.price), !.low = Min(@, t.price),
                        !.close = t.price, !.orderBook = t.orderBook]]

\* Mutant of flush: this.cur is not cleared.
flush_KeepsCur(a) ==
    IF a.cur # NoCandle THEN onClose(a) ELSE a

flush(a) ==
    IF a.cur # NoCandle
    THEN LET b == onClose(a)
         IN [b EXCEPT !.cur = NoCandle,
                      !.objs = [i \in Reach(b, NoCandle) |-> b.objs[i]]]
    ELSE a

\* ------------------------------------------------- numeric helpers, called alone
\* Longest close sequence given to calculateRSI.
MaxRsiCloses == 5
\* Largest notional and price given to toQtyFromUsd.
MaxSizing == 10
RsiCloses == {1, 2, 3}
RsiPeriods == {1, 2, 3}
CloseSeqs == UNION {[1..n -> RsiCloses] : n \in 0..MaxRsiCloses}

NoCallYet == [fn |-> "none"]
\* The calls to make: the helper and its arguments, not yet evaluated.
RsiCalls ==
    {[fn |-> "calculateRSI", closes |-> cl, period |-> period, done |-> FALSE,
      out |-> RsiNull] : cl \in CloseSeqs, period \in RsiPeriods}
SizingArgs == (-1)..MaxSizing
SizingScales == {0, 1, 2}
SizingCalls ==
    {[fn |-> "toQtyFromUsd", notionalUsd |-> n, price |-> px,
      quantityScale |-> sc, done |-> FALSE, out |-> 0] :
        n \in SizingArgs, px \in SizingArgs, sc \in SizingScales}
\* tradeOpen of an armed runner in a fresh band, on books whose levels hold
\* any of three quantities.
DepthQtys == {0, 2, 4}
DepthBooks ==
    {[bids |-> BidSide(b), asks |-> AskSide(a)] :
        b \in DepthQtys \X DepthQtys, a \in DepthQtys \X DepthQtys}
\* Closes for tradeOpen: NotionalUsd buys two units, one unit, or less than one.
OpenPrices == Prices \cup {NotionalUsd + 1}
OpenCalls ==
    {[fn |-> "tradeOpen", candle |-> [close |-> px, orderBook |-> book],
      side |-> sd, done |-> FALSE, out |-> 0] :
        px \in OpenPrices, book \in DepthBooks, sd \in {"BUY", "SELL"}}
NumCalls == RsiCalls \cup SizingCalls \cup OpenCalls

\* ------------------------------------------------- LiquidityFeed, start and stop
\* WebSocket objects a LiquidityFeed creates.
MaxSockets == 3

FeedTicks ==
    [ts : {0, IntervalMs}, price : {1},
     orderBook : {[bids |-> BidSide(<<4, 2>>), asks |-> AskSide(<<4, 2>>)]}]

\* A WebSocket: its readyState, and whether the subscribe message was sent
\* on it.
NewSocket == [st |-> "connecting", sub |-> FALSE]

\*   enabled     runners.has(symbol)
\*   bus         the ListenKeyFeedBus of rsi:enable is started, its two
\*               handlers attached
\*   stopFeed    RSIRunner.stopFeed is defined
\*   stopped     LiquidityFeed.stopped
\*   ws          LiquidityFeed.ws: an index of socks, 0 for undefined
\*   socks       every WebSocket the feed created, with its handlers
\*   timers      pending reconnect timeouts
\*   wasStopped  history: RSIRunner.stop has run
\*   late        history: onTick was called after RSIRunner.stop
FeedInit ==
    [enabled |-> FALSE, bus |-> FALSE, stopFeed |-> FALSE, stopped |-> FALSE,
     ws |-> 0, socks |-> <<>>, timers |-> 0, wasStopped |-> FALSE, late |-> FALSE]

LiquidityFeed_start(f) ==
    [f EXCEPT !.stopped = FALSE,
              !.socks = Append(@, NewSocket),
              !.ws = Len(f.socks) + 1]

\* The closure LiquidityFeed.start returns.
LiquidityFeed_stop(f) ==
    [f EXCEPT !.stopped = TRUE,
              !.socks = IF f.ws # 0 /\ f.socks[f.ws].st = "open"
                        THEN [@ EXCEPT ![f.ws].st = "closing"] ELSE @,
              !.ws = 0]

RSIRunner_start(f) ==
    IF f.stopFeed THEN f ELSE [LiquidityFeed_start(f) EXCEPT !.stopFeed = TRUE]

\* The feed's part of RSIRunner.stop; the aggregator's is flush.
RSIRunner_stop(f) ==
    [(IF f.stopFeed THEN LiquidityFeed_stop(f) ELSE f)
        EXCEPT !.stopFeed = FALSE, !.wasStopped = TRUE]

\* ws.on("open"): this.ws?.send(subscribe), which goes out when this.ws is
\* an open socket.
wsOnOpen(f, s) ==
    LET g == [f EXCEPT !.socks[s].st = "open"]
    IN IF g.ws # 0 /\ g.socks[g.ws].st = "open"
       THEN [g EXCEPT !.socks[g.ws].sub = TRUE] ELSE g

\* ws.on("message") with an order book of the symbol: onTick is called.
wsOnMessage(f) == [f EXCEPT !.late = @ \/ f.wasStopped]

\* ws.on("close")
wsOnClose(f, s) ==
    LET g == [f EXCEPT !.socks[s].st = "closed"]
    IN IF ~g.stopped THEN [g EXCEPT !.timers = @ + 1] ELSE g

\* setTimeout(() => this.start(symbol, candleMs, onTick), 1000)
reconnect(f) == LiquidityFeed_start([f EXCEPT !.timers = @ - 1])

\* ------------------------------------------------- ListenKeyFeedBus
\* (src/src/feeds/listenkey-feed-bus.ts:94-151)
MaxBusSockets == 3

\*   ws            ListenKeyFeedBus.ws: an index of socks, 0 for undefined
\*   socks         every WebSocket start() created; its handlers stay
\*                 attached, nothing removes them or closes the socket.
\*                 st is "errored" between the socket's error event and its
\*                 close event
\*   reconnecting  ListenKeyFeedBus.reconnecting
\*   timers        pending timeouts of scheduleReconnect
\*   crashed       a handler threw: send() on a socket that is connecting
BusInit ==
    [ws |-> 0, socks |-> <<>>, reconnecting |-> FALSE, timers |-> 0,
     crashed |-> FALSE]

ListenKeyFeedBus_start(b) ==
    [b EXCEPT !.socks = Append(@, NewSocket), !.ws = Len(b.socks) + 1]

\* Mutant of scheduleReconnect: the reconnecting test is missing.
scheduleReconnect_NoPendingTest(b) ==
    [b EXCEPT !.reconnecting = TRUE, !.timers = @ + 1]

scheduleReconnect(b) ==
    IF b.reconnecting THEN b
    ELSE [b EXCEPT !.reconnecting = TRUE, !.timers = @ + 1]

\* setTimeout(() => { this.reconnecting = false; this.start(); }, 1000)
busReconnect(b) ==
    ListenKeyFeedBus_start([b EXCEPT !.reconnecting = FALSE, !.timers = @ - 1])

\* ws.on("open") of socket s: this.ws?.send(subscribe) writes to the bus's
\* current socket, which is s or a later one; send throws on a socket that
\* is still connecting and is dropped by one that is closing or closed.
busOnOpen(b, s) ==
    LET g == [b EXCEPT !.socks[s].st = "open"]
    IN IF g.socks[g.ws].st = "open" THEN [g EXCEPT !.socks[g.ws].sub = TRUE]
       ELSE IF g.socks[g.ws].st = "connecting" THEN [g EXCEPT !.crashed = TRUE]
       ELSE g

\* ws.on("error") of socket s
busOnError(b, s) == scheduleReconnect([b EXCEPT !.socks[s].st = "errored"])

\* ws.on("close") of socket s
busOnClose(b, s) ==
    scheduleReconnect([b EXCEPT !.socks[s] = [st |-> "closed", sub |-> FALSE]])

\* The sockets the server sends account events on.
Delivering(b) ==
    {s \in 1..Len(b.socks) : b.socks[s].st = "open" /\ b.socks[s].sub}

\* ------------------------------------------------- state machine
RemoveAt(seq, i) == [j \in 1..(Len(seq) - 1) |-> IF j < i THEN seq[j] ELSE seq[j + 1]]

\* An awaited call keeps the gate values it was initiated with; held says
\* that inflight has stayed true ever since and that no other call was
\* awaited in the meantime.
Awaited(call, alone) ==
    [band |-> call.band, ordersAt |-> call.ordersAt, armedAt |-> call.armedAt,
     held |-> alone]

Unheld(cs) == [k \in 1..Len(cs) |-> [cs[k] EXCEPT !.held = FALSE]]
Track(cs, p) == IF p.inflight THEN cs ELSE Unheld(cs)

\* The fields of a fresh RSIRunner.
RunnerFields ==
    /\ maxOrdersPerCycle \in MaxOrdersChoices
    /\ closes = <<>>
    /\ pm = PmInit
    /\ calls = <<>>
    /\ submitted = NoCall
    /\ settled = "none"
    /\ orders = <<>>
    /\ subsInBand = 0
    /\ hot = {}
    /\ agg = AggInit

RunnerInit == mode \in Modes /\ RunnerFields

Init == RunnerInit /\ num = NoCallYet /\ feed = FeedInit /\ lk = BusInit /\ now = 0

\* A sealed candle reaches onCandle, which runs up to its first await.
RunnerOnCandle(c) ==
    LET cl == pushClose(closes, c.close)
        r == onCandleSync(pm, mode, maxOrdersPerCycle, cl, c)
    IN /\ r.call # NoCall => Len(calls) < MaxAwaiting
       /\ closes' = cl
       /\ pm' = r.pm
       /\ calls' = IF r.call = NoCall THEN Track(calls, r.pm)
                   ELSE Append(Track(calls, pm), Awaited(r.call, calls = <<>>))
       /\ submitted' = r.call
       /\ settled' = "none"
       /\ UNCHANGED <<mode, maxOrdersPerCycle>>

OnCandleStep(c) == RunnerOnCandle(c) /\ UNCHANGED <<agg, num, feed, lk, now>>

\* A step of the aggregator that calls onClose runs onCandle on the candle
\* passed, within the same call; any other step leaves the runner alone.
CandleOf(x) == [close |-> x.close, orderBook |-> x.orderBook]
RunnerOnClose(a) ==
    IF Len(a.emitted) > Len(agg.emitted)
    THEN RunnerOnCandle(CandleOf(a.snap[1]))
    ELSE /\ submitted' = NoCall
         /\ settled' = "none"
         /\ UNCHANGED <<mode, maxOrdersPerCycle, closes, pm, calls>>

\* The awaited executor call i resolves: the request succeeded, or
\* TradeExecutor outside real mode returned without sending one.
ExecutorReturnsStep(i) ==
    /\ i \in 1..Len(calls)
    /\ pm' = afterAwait(pm, mode, "returned", maxOrdersPerCycle)
    /\ calls' = Track(RemoveAt(calls, i), pm')
    /\ submitted' = NoCall
    /\ settled' = "returned"
    /\ UNCHANGED <<mode, maxOrdersPerCycle, closes, agg, num, feed, lk, now>>

\* The request TradeExecutor sent for call i in real mode is rejected or fails.
TradeExecutorFailsStep(i) ==
    /\ i \in 1..Len(calls)
    /\ mode = "real"
    /\ pm' = afterAwait(pm, mode, TradeExecutorOnFailure, maxOrdersPerCycle)
    /\ calls' = Track(RemoveAt(calls, i), pm')
    /\ submitted' = NoCall
    /\ settled' = "failed"
    /\ UNCHANGED <<mode, maxOrdersPerCycle, closes, agg, num, feed, lk, now>>

\* The awaited promise of call i rejects (an Executor that throws).
ExecutorThrowsStep(i) ==
    /\ i \in 1..Len(calls)
    /\ pm' = afterAwait(pm, mode, "threw", maxOrdersPerCycle)
    /\ calls' = Track(RemoveAt(calls, i), pm')
    /\ submitted' = NoCall
    /\ settled' = "threw"
    /\ UNCHANGED <<mode, maxOrdersPerCycle, closes, agg, num, feed, lk, now>>

\* listenKeyBus.on("orderUpdate")
OrderUpdateStep(u) ==
    /\ pm' = orderUpdateHandler(pm, u)
    /\ calls' = Track(calls, pm')
    /\ submitted' = NoCall
    /\ settled' = "none"
    /\ UNCHANGED <<mode, maxOrdersPerCycle, closes, agg, num, feed, lk, now>>

\* listenKeyBus.on("positionUpdate")
PositionUpdateStep(u) ==
    /\ pm' = positionUpdateHandler(pm, u)
    /\ submitted' = NoCall
    /\ settled' = "none"
    /\ UNCHANGED <<mode, maxOrdersPerCycle, closes, calls, agg, num, feed, lk, now>>

\* ---- Spec: the runner under every candle and every account-feed event
OnCandle(c) == OnCandleStep(c) /\ UNCHANGED histVars
ExecutorReturns(i) == ExecutorReturnsStep(i) /\ UNCHANGED histVars
TradeExecutorFails(i) == TradeExecutorFailsStep(i) /\ UNCHANGED histVars
ExecutorThrows(i) == ExecutorThrowsStep(i) /\ UNCHANGED histVars
OrderUpdate(u) == OrderUpdateStep(u) /\ UNCHANGED histVars
PositionUpdate(u) == PositionUpdateStep(u) /\ UNCHANGED histVars

Next ==
    \/ \E c \in Candles : OnCandle(c)
    \/ \E i \in 1..MaxAwaiting : ExecutorReturns(i)
    \/ \E i \in 1..MaxAwaiting : TradeExecutorFails(i)
    \/ \E i \in 1..MaxAwaiting : ExecutorThrows(i)
    \/ \E u \in OrderUpdates : OrderUpdate(u)
    \/ \E u \in PositionUpdates : PositionUpdate(u)

Spec == Init /\ [][Next]_vars

\* ---- SpecHist: the runner as cli.ts builds it (real mode, TradeExecutor),
\* counting the calls of a band
\* The history specifications feed candles whose book covers every quantity.
DeepBook == [bids |-> BidSide(<<4, 2>>), asks |-> AskSide(<<4, 2>>)]
DeepCandles == {c \in Candles : c.orderBook = DeepBook}

InitHist == Init /\ mode = "real"

OnCandleH(c) ==
    /\ OnCandleStep(c)
    /\ submitted' # NoCall => subsInBand < MaxOrders
    /\ subsInBand' = (IF pm'.cycleSide # pm.cycleSide THEN 0 ELSE subsInBand)
                     + (IF submitted' = NoCall THEN 0 ELSE 1)
    /\ hot' = IF Zone(calculateRSI(closes', Period)) = "neutral" THEN {}
              ELSE IF submitted' = NoCall THEN hot
              ELSE hot \cup {submitted'.band}
    /\ UNCHANGED orders

ExecutorReturnsH(i) == ExecutorReturnsStep(i) /\ UNCHANGED histVars
TradeExecutorFailsH(i) == TradeExecutorFailsStep(i) /\ UNCHANGED histVars
OrderUpdateH(u) == OrderUpdateStep(u) /\ UNCHANGED histVars
PositionUpdateH(u) == PositionUpdateStep(u) /\ UNCHANGED histVars

NextHist ==
    \/ \E c \in DeepCandles : OnCandleH(c)
    \/ \E i \in 1..MaxAwaiting : ExecutorReturnsH(i)
    \/ \E i \in 1..MaxAwaiting : TradeExecutorFailsH(i)
    \/ \E u \in OrderUpdates : OrderUpdateH(u)
    \/ \E u \in PositionUpdates : PositionUpdateH(u)

SpecHist == InitHist /\ [][NextHist]_vars

\* ---- SpecIds: the same steps in real mode with TradeExecutor, following
\* each order from its call to its terminal update
\* The order of the k-th awaited call: calls are appended and removed in
\* step with the awaiting entries of orders.
NthAwaiting(k) ==
    CHOOSE i \in 1..Len(orders) :
        /\ orders[i].st = "awaiting"
        /\ Cardinality({j \in 1..i : orders[j].st = "awaiting"}) = k

InitIds == Init /\ mode = "real" /\ maxOrdersPerCycle = 2

OnCandleI(c) ==
    /\ OnCandleStep(c)
    /\ submitted' # NoCall => Len(orders) < MaxOrders
    /\ orders' = IF submitted' = NoCall THEN orders
                 ELSE Append(orders, [st |-> "awaiting", term |-> FALSE])
    /\ UNCHANGED <<subsInBand, hot>>

SettleI(i, st) ==
    /\ orders' = [orders EXCEPT ![NthAwaiting(i)].st = st]
    /\ UNCHANGED <<subsInBand, hot>>

ExecutorReturnsI(i) == ExecutorReturnsStep(i) /\ SettleI(i, "returned")
TradeExecutorFailsI(i) == TradeExecutorFailsStep(i) /\ SettleI(i, "failed")

\* An update of the runner's own order id (first delivery or redelivery).
OwnOrderUpdateI(id, status) ==
    /\ id \in 1..Len(orders)
    /\ OrderUpdateStep([symbol |-> Symbol, status |-> status])
    /\ orders' = IF status \in TERMINAL_SET
                 THEN [orders EXCEPT ![id].term = TRUE] ELSE orders
    /\ UNCHANGED <<subsInBand, hot>>

PositionUpdateI(u) == PositionUpdateStep(u) /\ UNCHANGED histVars

NextIds ==
    \/ \E c \in DeepCandles : OnCandleI(c)
    \/ \E i \in 1..MaxAwaiting : ExecutorReturnsI(i)
    \/ \E i \in 1..MaxAwaiting : TradeExecutorFailsI(i)
    \/ \E id \in 1..MaxOrders, st \in Statuses : OwnOrderUpdateI(id, st)
    \/ \E u \in PositionUpdates : PositionUpdateI(u)

SpecIds == InitIds /\ [][NextIds]_vars

\* ---- SpecAgg: the CandleAggregator under every tick stream, in any order
\* of timestamps, and flush
InitAgg == Init /\ mode = "paper" /\ maxOrdersPerCycle = 2

\* feed.start's onTick: (t) => this.agg.ingest(t)
Ingest(t) ==
    /\ (agg.cur = NoCandle \/ t.ts >= agg.objs[agg.cur].end) => agg.made < MaxCandles
    /\ agg' = ingest(agg, t)
    /\ UNCHANGED <<progVars, histVars, num, feed, lk, now>>

\* RSIRunner.stop: this.agg.flush()
Flush ==
    /\ agg' = flush(agg)
    /\ UNCHANGED <<progVars, histVars, num, feed, lk, now>>

NextAgg ==
    \/ \E t \in Ticks : Ingest(t)
    \/ Flush

SpecAgg == InitAgg /\ [][NextAgg]_vars

\* ---- SpecClock: the CandleAggregator under ticks stamped by a clock that
\* never goes back, and flush
InitClock == Init /\ mode = "paper" /\ maxOrdersPerCycle = 2

IngestNow(t) ==
    /\ t.ts >= now
    /\ (agg.cur = NoCandle \/ t.ts >= agg.objs[agg.cur].end) => agg.made < MaxCandles
    /\ agg' = ingest(agg, t)
    /\ now' = t.ts
    /\ UNCHANGED <<progVars, histVars, num, feed, lk>>

FlushNow ==
    /\ agg' = flush(agg)
    /\ UNCHANGED <<progVars, histVars, num, feed, lk, now>>

NextClock ==
    \/ \E t \in Ticks : IngestNow(t)
    \/ FlushNow

SpecClock == InitClock /\ [][NextClock]_vars

\* ---- SpecFlush: a runner in real mode with its aggregator, from start()
\* to stop() and after; the candles onCandle gets are those the aggregator
\* passes to onClose (new CandleAggregator(candleMs, (c) => this.onCandle(c)))
FlushTicks == {t \in Ticks : t.price \in Prices}

InitFlush == Init /\ mode = "real" /\ maxOrdersPerCycle = 2

StartF ==
    /\ ~feed.stopFeed
    /\ ~feed.wasStopped
    /\ feed' = RSIRunner_start(feed)
    /\ submitted' = NoCall
    /\ settled' = "none"
    /\ UNCHANGED <<mode, maxOrdersPerCycle, closes, pm, calls, histVars, agg, num,
                   lk, now>>

\* feed.start's onTick while the runner is started
TickF(t) ==
    /\ feed.stopFeed
    /\ t.ts >= now
    /\ (agg.cur = NoCandle \/ t.ts >= agg.objs[agg.cur].end) => agg.made < MaxCandles
    /\ agg' = ingest(agg, t)
    /\ now' = t.ts
    /\ RunnerOnClose(agg')
    /\ UNCHANGED <<histVars, num, feed, lk>>

\* RSIRunner.stop
StopF ==
    /\ feed.stopFeed
    /\ feed' = RSIRunner_stop(feed)
    /\ agg' = flush(agg)
    /\ RunnerOnClose(agg')
    /\ UNCHANGED <<histVars, num, lk, now>>

NextFlush ==
    \/ StartF
    \/ \E t \in FlushTicks : TickF(t)
    \/ StopF
    \/ \E i \in 1..MaxAwaiting : ExecutorReturns(i)
    \/ \E i \in 1..MaxAwaiting : TradeExecutorFails(i)
    \/ \E u \in OrderUpdates : OrderUpdate(u)
    \/ \E u \in PositionUpdates : PositionUpdate(u)

SpecFlush == InitFlush /\ [][NextFlush]_vars

\* ---- SpecStop: one runner of the CLI from rsi:enable to rsi:disable and
\* after, with the sockets of its price feed and the account updates of
\* its ListenKeyFeedBus
InitStop == Init /\ mode = "real" /\ maxOrdersPerCycle = 2

\* rsi:enable for a symbol without a runner. A runner is not started
\* twice: after rsi:disable, rsi:enable builds another runner, feed and bus.
RsiEnable ==
    /\ ~feed.enabled
    /\ ~feed.wasStopped
    /\ feed' = [RSIRunner_start(feed) EXCEPT !.bus = TRUE, !.enabled = TRUE]
    /\ UNCHANGED <<progVars, histVars, agg, num, lk, now>>

\* rsi:disable: r.stop(); runners.delete(key)
RsiDisable ==
    /\ feed.enabled
    /\ feed' = [RSIRunner_stop(feed) EXCEPT !.enabled = FALSE]
    /\ agg' = flush(agg)
    /\ UNCHANGED <<progVars, histVars, num, lk, now>>

SocketOpens(s) ==
    /\ s \in 1..Len(feed.socks)
    /\ feed.socks[s].st = "connecting"
    /\ feed' = wsOnOpen(feed, s)
    /\ UNCHANGED <<progVars, histVars, agg, num, lk, now>>

\* The server sends order books on a socket it got a subscription on; a
\* frame may arrive after close() was called, until the socket is closed.
SocketMessage(s, t) ==
    /\ s \in 1..Len(feed.socks)
    /\ feed.socks[s].st \in {"open", "closing"}
    /\ feed.socks[s].sub
    /\ (agg.cur = NoCandle \/ t.ts >= agg.objs[agg.cur].end) => agg.made < MaxCandles
    /\ feed' = wsOnMessage(feed)
    /\ agg' = ingest(agg, t)
    /\ UNCHANGED <<progVars, histVars, num, lk, now>>

\* The connection fails, is lost, or its closing handshake completes.
SocketCloses(s) ==
    /\ s \in 1..Len(feed.socks)
    /\ feed.socks[s].st # "closed"
    /\ feed' = wsOnClose(feed, s)
    /\ UNCHANGED <<progVars, histVars, agg, num, lk, now>>

ReconnectTimer ==
    /\ feed.timers > 0
    /\ Len(feed.socks) < MaxSockets
    /\ feed' = reconnect(feed)
    /\ UNCHANGED <<progVars, histVars, agg, num, lk, now>>

\* The bus is never stopped and its handlers are never removed.
OrderUpdateS(u) ==
    /\ feed.bus
    /\ OrderUpdateStep(u)
    /\ UNCHANGED histVars

PositionUpdateS(u) ==
    /\ feed.bus
    /\ PositionUpdateStep(u)
    /\ UNCHANGED histVars

NextStop ==
    \/ RsiEnable
    \/ RsiDisable
    \/ \E s \in 1..MaxSockets : SocketOpens(s)
    \/ \E s \in 1..MaxSockets, t \in FeedTicks : SocketMessage(s, t)
    \/ \E s \in 1..MaxSockets : SocketCloses(s)
    \/ ReconnectTimer
    \/ \E u \in OrderUpdates : OrderUpdateS(u)
    \/ \E u \in PositionUpdates : PositionUpdateS(u)

SpecStop == InitStop /\ [][NextStop]_vars

\* ---- SpecBus: the ListenKeyFeedBus of one rsi:enable with every socket
\* it creates, and the runner's handlers on the events it emits
InitBus == Init /\ mode = "real" /\ maxOrdersPerCycle = 2

\* rsi:enable: listenKeyBus.start()
BusStart ==
    /\ lk.ws = 0
    /\ lk' = ListenKeyFeedBus_start(lk)
    /\ UNCHANGED <<progVars, histVars, agg, num, feed, now>>

BusSocketOpens(s) ==
    /\ ~lk.crashed
    /\ s \in 1..Len(lk.socks)
    /\ lk.socks[s].st = "connecting"
    /\ lk' = busOnOpen(lk, s)
    /\ UNCHANGED <<progVars, histVars, agg, num, feed, now>>

\* The connection attempt fails, or the open connection breaks; the
\* socket's close event follows, at a time of its own. An event that
\* schedules a reconnect is taken while the bus may still create a socket.
BusSocketError(s) ==
    /\ ~lk.crashed
    /\ s \in 1..Len(lk.socks)
    /\ lk.socks[s].st \in {"connecting", "open"}
    /\ lk.reconnecting \/ Len(lk.socks) < MaxBusSockets
    /\ lk' = busOnError(lk, s)
    /\ UNCHANGED <<progVars, histVars, agg, num, feed, now>>

\* The server closes the connection, or the closing that follows an error
\* completes.
BusSocketCloses(s) ==
    /\ ~lk.crashed
    /\ s \in 1..Len(lk.socks)
    /\ lk.socks[s].st \in {"open", "errored"}
    /\ lk.reconnecting \/ Len(lk.socks) < MaxBusSockets
    /\ lk' = busOnClose(lk, s)
    /\ UNCHANGED <<progVars, histVars, agg, num, feed, now>>

BusReconnectTimer ==
    /\ ~lk.crashed
    /\ lk.timers > 0
    /\ Len(lk.socks) < MaxBusSockets
    /\ lk' = busReconnect(lk)
    /\ UNCHANGED <<progVars, histVars, agg, num, feed, now>>

\* ws.on("message") of socket s with an ORDER_TRADE_UPDATE: the runner's
\* orderUpdate handler runs.
BusOrderUpdate(s, u) ==
    /\ ~lk.crashed
    /\ s \in Delivering(lk)
    /\ OrderUpdateStep(u)
    /\ UNCHANGED histVars

\* ws.on("message") of socket s with an ACCOUNT_UPDATE
BusPositionUpdate(s, u) ==
    /\ ~lk.crashed
    /\ s \in Delivering(lk)
    /\ PositionUpdateStep(u)
    /\ UNCHANGED histVars

NextBus ==
    \/ BusStart
    \/ \E s \in 1..MaxBusSockets : BusSocketOpens(s)
    \/ \E s \in 1..MaxBusSockets : BusSocketError(s)
    \/ \E s \in 1..MaxBusSockets : BusSocketCloses(s)
    \/ BusReconnectTimer
    \/ \E s \in 1..MaxBusSockets, u \in OrderUpdates : BusOrderUpdate(s, u)
    \/ \E s \in 1..MaxBusSockets, u \in PositionUpdates : BusPositionUpdate(s, u)

SpecBus == InitBus /\ [][NextBus]_vars

\* A timeout that was set fires: the event loop runs every due timer.
SpecBusLive == SpecBus /\ WF_vars(BusReconnectTimer)

\* ---- SpecMode: the runner and the executor under every kind of value of
\* process.env.MODE. Both lower-case it; the runner's paper branch tests
\* mode === "paper", TradeExecutor sends a request when mode === "real".
EnvModes == Modes \cup {"test"}

InitMode ==
    /\ mode \in EnvModes
    /\ RunnerFields
    /\ maxOrdersPerCycle = 2
    /\ num = NoCallYet
    /\ feed = FeedInit
    /\ lk = BusInit
    /\ now = 0

NextMode ==
    \/ \E c \in DeepCandles : OnCandle(c)
    \/ \E i \in 1..MaxAwaiting : ExecutorReturns(i)
    \/ \E i \in 1..MaxAwaiting : TradeExecutorFails(i)
    \/ \E u \in OrderUpdates : OrderUpdate(u)
    \/ \E u \in PositionUpdates : PositionUpdate(u)

SpecMode == InitMode /\ [][NextMode]_vars

\* ---- SpecSizing: the runner in real mode under candles whose close may
\* be 0, a price toQtyFromUsd rejects
SizingCandles == [close : {0, 2}, orderBook : {DeepBook}]

InitSizing == Init /\ mode = "real"

OnCandleZ(c) == OnCandleStep(c) /\ UNCHANGED histVars

NextSizing ==
    \/ \E c \in SizingCandles : OnCandleZ(c)
    \/ \E i \in 1..MaxAwaiting : ExecutorReturns(i)
    \/ \E i \in 1..MaxAwaiting : TradeExecutorFails(i)
    \/ \E u \in OrderUpdates : OrderUpdate(u)
    \/ \E u \in PositionUpdates : PositionUpdate(u)

SpecSizing == InitSizing /\ [][NextSizing]_vars

\* ---- SpecNum: the helpers of utils/candle-aggregator.ts and tradeOpen, each
\* called on arguments of its own
InitNum ==
    /\ RunnerInit
    /\ mode = "paper"
    /\ maxOrdersPerCycle = 2
    /\ num \in NumCalls
    /\ feed = FeedInit
    /\ lk = BusInit
    /\ now = 0

CalculateRSI ==
    /\ num.fn = "calculateRSI"
    /\ ~num.done
    /\ num' = [num EXCEPT !.done = TRUE,
                          !.out = calculateRSI(num.closes, num.period)]
    /\ UNCHANGED <<progVars, histVars, agg, feed, lk, now>>

\* out is InvalidSizing when the call threw.
ToQtyFromUsd ==
    /\ num.fn = "toQtyFromUsd"
    /\ ~num.done
    /\ num' = [num EXCEPT !.done = TRUE,
                          !.out = toQtyFromUsd(num.notionalUsd, num.price,
                                               num.quantityScale)]
    /\ UNCHANGED <<progVars, histVars, agg, feed, lk, now>>

\* out keeps the levels the depth lookup of tradeOpen returned and what
\* tradeOpen did up to its await.
TradeOpen ==
    /\ num.fn = "tradeOpen"
    /\ ~num.done
    /\ LET p == [PmInit EXCEPT !.cycleSide = IF num.side = "BUY" THEN "lower"
                                             ELSE "upper"]
           qty == toQtyFromUsd(NotionalUsd, num.candle.close, QuantityScale)
       IN num' = [num EXCEPT
                     !.done = TRUE,
                     !.out = [levels |-> getMaxMatchingPrices(num.candle.orderBook, qty),
                              open |-> tradeOpen(p, num.candle, num.side)]]
    /\ UNCHANGED <<progVars, histVars, agg, feed, lk, now>>

NextNum ==
    \/ CalculateRSI
    \/ ToQtyFromUsd
    \/ TradeOpen

SpecNum == InitNum /\ [][NextNum]_vars

\* =================================================== claims
Gated == mode # "paper"

\* C1 (SpecIds): at any time at most one order submitted by the runner is
\* outstanding, i.e. submitted (its call awaited or returned) and without a
\* terminal update of its own, also when terminal updates of earlier orders
\* are redelivered.
Outstanding(i) == orders[i].st \in {"awaiting", "returned"} /\ ~orders[i].term
C1_AtMostOneOutstanding ==
    Cardinality({i \in 1..Len(orders) : Outstanding(i)}) <= 1

\* C2 (SpecHist): within one entry into a band (between two band switches) the
\* number of order submissions initiated never exceeds maxOrdersPerCycle.
C2_SubmissionsWithinCap == subsInBand <= maxOrdersPerCycle

\* C3 (SpecHist): once an order was submitted on a band, no further order is
\* submitted on that band before a neutral candle has been evaluated.
C3_NeutralBetweenOrders ==
    [][submitted' # NoCall => submitted'.band \notin hot]_vars

\* C4 (Spec): every submission of the gated path is initiated with armed = TRUE
\* and inflight = FALSE, on a candle whose oscillator value is outside
\* [low, high]; none is initiated while armed = FALSE.
C4_SubmissionGates ==
    (submitted # NoCall /\ submitted.kind # "paper") =>
        /\ submitted.armedAt
        /\ ~submitted.inflightAt
        /\ Zone(calculateRSI(closes, Period)) \in {"upper", "lower"}
        /\ submitted.band = Zone(calculateRSI(closes, Period))
        /\ pm.inflight

C4_Witness ==
    /\ submitted.kind = "open"
    /\ pm.cycleSide = "lower"
    /\ pm.ordersInCycle = 1

\* C5 (Spec): while inflight is true no submission is initiated, and inflight
\* is cleared only by a terminal order update of the runner's symbol or by a
\* submission call that throws; an update with status NEW or PARTIALLY_FILLED,
\* or of another symbol, never clears it.
ClearingStep ==
    \/ \E u \in OrderUpdates :
          u.symbol = Symbol /\ u.status \in TERMINAL_SET /\ OrderUpdate(u)
    \/ settled' = "threw"

C6_OneAwaitedCall == Gated => Len(calls) <= 1

C8_FailedRequestReleases ==
    [][\A i \in 1..Len(calls) :
          (settled' = "failed" /\ TradeExecutorFails(i)) =>
              /\ ~pm'.inflight
              /\ pm'.ordersInCycle = pm.ordersInCycle
              /\ pm'.armed = pm.armed]_vars

\* What a candle c would make the gated path attempt in the current state:
\* the PositionManager after enterBand, the kind of order and the quantity.
AttemptZone(c) == Zone(calculateRSI(pushClose(closes, c.close), Period))
AttemptPm(c) == enterBand(pm, AttemptZone(c))
AttemptReached(c) ==
    /\ Gated
    /\ ~pm.inflight
    /\ AttemptZone(c) \in {"upper", "lower"}
    /\ AttemptPm(c).armed
AttemptsFlatten(c) ==
    /\ AttemptReached(c)
    /\ AttemptPm(c).ordersInCycle = 0
    /\ AttemptPm(c).qtyAbs > 0
    /\ AttemptPm(c).side = (IF AttemptZone(c) = "upper" THEN "LONG" ELSE "SHORT")
AttemptsOpen(c) ==
    /\ AttemptReached(c)
    /\ ~(AttemptPm(c).ordersInCycle = 0 /\
         AttemptPm(c).side = (IF AttemptZone(c) = "upper" THEN "LONG" ELSE "SHORT"))
    /\ AttemptPm(c).ordersInCycle < maxOrdersPerCycle
\* The side of the book an order of the band trades against: a SELL (upper
\* band) hits the bids, a BUY (lower band) the asks.
RelevantSide(c) ==
    IF AttemptZone(c) = "upper" THEN c.orderBook.bids ELSE c.orderBook.asks
Covered(levels, quantity) == \E k \in 1..Len(levels) : levels[k].q >= quantity
RequiredQty(c) ==
    IF AttemptsFlatten(c) THEN toFixed(AttemptPm(c).qtyAbs)
    ELSE toQtyFromUsd(NotionalUsd, c.close, QuantityScale)
Outcome(c) == onCandleSync(pm, mode, maxOrdersPerCycle, pushClose(closes, c.close), c)

\* C9 (Spec): when no single level of the relevant side covers the required
\* quantity, the executor is not called and ordersInCycle, armed and inflight
\* are left as they were.
C9_DepthSkipLeavesState ==
    \A c \in Candles :
        ((AttemptsFlatten(c) \/ AttemptsOpen(c))
            /\ ~Covered(RelevantSide(c), RequiredQty(c)))
        => (Outcome(c).call = NoCall /\ Outcome(c).pm = AttemptPm(c))

\* C10 (Spec): a flatten SELL of a LONG is submitted if and only if some bid
\* level covers the full position quantity, a flatten BUY of a SHORT if and
\* only if some ask level covers it.
C10_FlattenIffCovered ==
    \A c \in Candles :
        AttemptsFlatten(c) =>
            (Outcome(c).call.kind = "flatten"
                <=> Covered(RelevantSide(c), AttemptPm(c).qtyAbs))

\* The position side a band flattens and the order side it trades.
BandSide(band) == IF band = "upper" THEN "LONG" ELSE "SHORT"
BandOrder(band) == IF band = "upper" THEN "SELL" ELSE "BUY"

\* C11 (Spec): on the first armed candle of a band cycle (ordersInCycle = 0)
\* with a side that the band does not flatten (not LONG on the upper band, not
\* SHORT on the lower), no order is sent and the first slot is consumed as a
\* no-op: ordersInCycle becomes 1 and armed false.
AttemptsNoOp(c) ==
    /\ AttemptReached(c)
    /\ maxOrdersPerCycle >= 1
    /\ AttemptPm(c).ordersInCycle = 0
    /\ AttemptPm(c).side # BandSide(AttemptZone(c))
C11_FirstSlotNoOp ==
    \A c \in Candles :
        AttemptsNoOp(c) =>
            /\ Outcome(c).call = NoCall
            /\ Outcome(c).pm = [AttemptPm(c) EXCEPT !.ordersInCycle = 1, !.armed = FALSE]

\* C12 (SpecHist): a band cycle that starts with the side the band flattens.
\* Its first order flattens: a SELL (upper) or BUY (lower) of the local
\* quantity, and its return consumes slot 1.  Further candles of the band
\* without a neutral candle submit nothing.  After a neutral candle and with
\* inflight cleared, the next candle of the band submits an order of the same
\* side sized notionalUsd / price, whose return consumes slot 2 and leaves
\* inflight set.
C12_FirstOrder ==
    (submitted' # NoCall /\ submitted'.ordersAt = 0
        /\ pm.side = BandSide(submitted'.band)) =>
        /\ submitted'.kind = "flatten"
        /\ submitted'.side = BandOrder(submitted'.band)
        /\ submitted'.qty = pm.qtyAbs
C12_NothingWithoutNeutral ==
    (submitted' # NoCall /\ pm.cycleSide = submitted'.band) =>
        submitted'.band \notin hot
C12_SecondOrder ==
    \A c \in DeepCandles :
        (/\ AttemptReached(c)
         /\ AttemptZone(c) = pm.cycleSide
         /\ pm.ordersInCycle = 1
         /\ maxOrdersPerCycle >= 2) =>
            /\ Outcome(c).call.kind = "open"
            /\ Outcome(c).call.side = BandOrder(pm.cycleSide)
            /\ Outcome(c).call.qty = toQtyFromUsd(NotionalUsd, c.close, QuantityScale)
            /\ Outcome(c).pm.inflight
C12_Consumes ==
    \A i \in 1..Len(calls) :
        (settled' = "returned" /\ ExecutorReturnsH(i) /\ calls[i].held
            /\ maxOrdersPerCycle >= 2) =>
            /\ pm'.ordersInCycle = calls[i].ordersAt + 1
            /\ pm'.inflight
C12_TwoStepCycle ==
    [][/\ C12_FirstOrder
       /\ C12_NothingWithoutNeutral
       /\ C12_SecondOrder
       /\ C12_Consumes]_vars

\* C13 (Spec): a candle whose oscillator value lies in [low, high] sets armed,
\* submits nothing and leaves cycleSide, ordersInCycle, inflight, side and
\* qtyAbs as they were, with or without an order in flight.
C13_NeutralOnlyRearms ==
    \A c \in Candles :
        AttemptZone(c) = "neutral" =>
            /\ Outcome(c).call = NoCall
            /\ Outcome(c).pm = [pm EXCEPT !.armed = TRUE]

\* A neutral candle was the last one evaluated, during a cycle with a slot
\* used and an order in flight.
C13_Witness ==
    /\ Zone(calculateRSI(closes, Period)) = "neutral"
    /\ pm.armed
    /\ pm.inflight
    /\ pm.ordersInCycle = 1
    /\ pm.side = "LONG"
    /\ submitted = NoCall

\* C14 (Spec): while the close series, the candle's close included, has fewer
\* than period + 1 elements, the candle submits nothing and changes no field
\* of the PositionManager; the close is appended to the series.
C14_WarmUpIsInert ==
    \A c \in Candles :
        Len(closes) + 1 < Period + 1 =>
            /\ Outcome(c).call = NoCall
            /\ Outcome(c).pm = pm
            /\ pushClose(closes, c.close) = Append(closes, c.close)

\* The last warm-up candle has been evaluated.
C14_Witness ==
    /\ Len(closes) = Period
    /\ pm.cycleSide = "none"
    /\ pm.side = "SHORT"
    /\ calls = <<>>

\* C15 (Spec): a position snapshot of the runner's symbol sets side from the
\* sign of netQty and qtyAbs to |netQty| and leaves cycleSide, ordersInCycle,
\* armed and inflight as they were.
C15_SnapshotSetsSideOnly ==
    \A u \in PositionUpdates :
        u.symbol = Symbol =>
            positionUpdateHandler(pm, u) =
                [pm EXCEPT !.side = IF u.netQty > 0 THEN "LONG"
                                    ELSE IF u.netQty < 0 THEN "SHORT" ELSE "FLAT",
                           !.qtyAbs = IF u.netQty < 0 THEN -u.netQty ELSE u.netQty]

\* A SHORT snapshot was applied on the upper band, with a slot used and an
\* order in flight.
C15_Witness ==
    /\ pm.side = "SHORT"
    /\ pm.qtyAbs = 3
    /\ pm.cycleSide = "upper"
    /\ pm.ordersInCycle = 1
    /\ ~pm.armed
    /\ pm.inflight
    /\ settled = "none"

\* C16 (Spec): applying a terminal order update a second time leaves inflight
\* false and changes nothing else; applying a position snapshot a second time
\* changes nothing; after two snapshots side and qtyAbs are those of the last.
C16_RedeliveryIdempotent ==
    /\ \A u \in OrderUpdates :
          (u.symbol = Symbol /\ u.status \in TERMINAL_SET) =>
              /\ orderUpdateHandler(pm, u) = [pm EXCEPT !.inflight = FALSE]
              /\ orderUpdateHandler(orderUpdateHandler(pm, u), u)
                     = orderUpdateHandler(pm, u)
    /\ \A u \in PositionUpdates :
          positionUpdateHandler(positionUpdateHandler(pm, u), u)
              = positionUpdateHandler(pm, u)
    /\ \A u, v \in PositionUpdates :
          v.symbol = Symbol =>
              positionUpdateHandler(positionUpdateHandler(pm, u), v)
                  = positionUpdateHandler(pm, v)

\* A terminal update and a snapshot have been applied after a returned call.
C16_Witness ==
    /\ ~pm.inflight
    /\ pm.ordersInCycle = 1
    /\ ~pm.armed
    /\ pm.side = "LONG"
    /\ pm.qtyAbs = 2
    /\ calls = <<>>
    /\ settled = "none"

\* C17 (Spec): 0 <= ordersInCycle <= maxOrdersPerCycle in every reachable
\* state, and consumeAndDisarm at the cap leaves ordersInCycle at the cap and
\* clears armed.
C17_OrdersInCycleWithinCap ==
    /\ pm.ordersInCycle \in 0..maxOrdersPerCycle
    /\ pm.ordersInCycle = maxOrdersPerCycle =>
          consumeAndDisarm(pm, maxOrdersPerCycle)
              = [pm EXCEPT !.ordersInCycle = maxOrdersPerCycle, !.armed = FALSE]

\* A flatten has returned with a cap of 0: consumeAndDisarm ran at the cap.
C17_Witness ==
    /\ Gated
    /\ maxOrdersPerCycle = 0
    /\ settled = "returned"
    /\ pm.ordersInCycle = 0
    /\ ~pm.armed

\* The onClose call that seals the current candle of a.
Sealing(a) == [id |-> a.cur, seen |-> a.cur, made |-> a.made]
LastEmitted(a) == a.emitted[Len(a.emitted)]

\* C18 (SpecAgg): the open candle after every ingested tick and every emitted
\* candle have low <= open <= high, low <= close <= high and end = start +
\* intervalMs; close is the price of the last tick folded in and open the
\* price of the first.
WellFormed(c) ==
    /\ c.low <= c.open /\ c.open <= c.high
    /\ c.low <= c.close /\ c.close <= c.high
    /\ c.end = c.start + IntervalMs
C18_CandleShape ==
    /\ \A i \in DOMAIN agg.objs : WellFormed(agg.objs[i])
    /\ agg.snap # <<>> => WellFormed(agg.snap[1])
    /\ \A t \in Ticks :
          LET r == ingest(agg, t)
              c == r.objs[r.cur]
          IN /\ WellFormed(c)
             /\ c.close = t.price
             /\ c.open = IF r.cur = agg.cur THEN agg.objs[agg.cur].open ELSE t.price

\* Ticks 2, 3, 1 were folded into the open candle after one was emitted.
C18_Witness ==
    /\ agg.cur # NoCandle
    /\ Len(agg.emitted) = 1
    /\ agg.objs[agg.cur].open = 2
    /\ agg.objs[agg.cur].high = 3
    /\ agg.objs[agg.cur].low = 1
    /\ agg.objs[agg.cur].close = 1

\* C19 (SpecAgg): ingest passes a candle to onClose exactly when the tick's
\* timestamp is >= the end of the open candle, flush when a candle is open;
\* every candle no longer open has been passed exactly once, while it was
\* still this.cur and before the next candle object was created, and the
\* object passed is not modified afterwards.
C19_SealedOnce ==
    /\ \A t \in Ticks :
          LET r == ingest(agg, t) IN
          IF agg.cur # NoCandle /\ t.ts >= agg.objs[agg.cur].end
          THEN /\ r.emitted = Append(agg.emitted, Sealing(agg))
               /\ r.snap = <<agg.objs[agg.cur]>>
               /\ r.objs[agg.cur] = agg.objs[agg.cur]
               /\ r.cur # agg.cur
          ELSE r.emitted = agg.emitted
    /\ agg.cur # NoCandle => flush(agg).emitted = Append(agg.emitted, Sealing(agg))
    /\ \A j, k \in 1..Len(agg.emitted) :
          j # k => agg.emitted[j].id # agg.emitted[k].id
    /\ {agg.emitted[k].id : k \in 1..Len(agg.emitted)} = (1..agg.made) \ {agg.cur}
    /\ \A k \in 1..Len(agg.emitted) :
          /\ agg.emitted[k].seen = agg.emitted[k].id
          /\ agg.emitted[k].made = agg.emitted[k].id
    /\ agg.emitted # <<>> => agg.objs[LastEmitted(agg).id] = agg.snap[1]

\* Two candles were sealed by the first tick of a later bucket and the third
\* has been updated.
C19_Witness ==
    /\ Len(agg.emitted) = 2
    /\ agg.cur = 3
    /\ agg.objs[agg.cur].close # agg.objs[agg.cur].open
    /\ agg.objs[2].start = 2
    /\ agg.objs[3].start = 4

\* C20 (SpecAgg): flush emits the open candle once, if there is one, and
\* clears this.cur; a second flush emits nothing and changes nothing; the
\* first tick after a flush opens a new candle and emits none.
C20_FlushClears ==
    LET f == flush(agg) IN
    /\ f.cur = NoCandle
    /\ agg.cur # NoCandle => f.emitted = Append(agg.emitted, Sealing(agg))
    /\ agg.cur = NoCandle => f = agg
    /\ flush(f) = f
    /\ \A t \in Ticks :
          LET r == ingest(f, t) IN
          /\ r.emitted = f.emitted
          /\ r.cur # NoCandle
          /\ r.objs[r.cur] = NewCandle(t)

\* A flush has emitted the second candle.
C20_Witness ==
    /\ agg.cur = NoCandle
    /\ Len(agg.emitted) = 2
    /\ agg.made = 2

\* ---- C21: calculateRSI returns null exactly when it is given fewer than
\* period + 1 closes; otherwise it returns a value between 0 and 100, and
\* that value is 100 whenever the smoothed average loss is zero, as it is
\* for a series in which no close is below the one before it (all-equal
\* closes included).
NoLoss(cl) == \A i \in 1..(Len(cl) - 1) : cl[i + 1] >= cl[i]

C21_RsiRange ==
    (num.fn = "calculateRSI" /\ num.done) =>
        LET r == num.out
            last == Len(num.closes) - 1
        IN /\ r.ok <=> Len(num.closes) >= num.period + 1
           /\ r.ok => /\ r.d > 0
                      /\ 0 <= r.n
                      /\ r.n <= 100 * r.d
                      /\ AvgLossNum(num.closes, num.period, last) = 0
                            => r.n = 100 * r.d
                      /\ NoLoss(num.closes) => r.n = 100 * r.d

\* All-equal closes, long enough for the smoothing loop to have run.
C21_Witness ==
    /\ num.fn = "calculateRSI"
    /\ num.done
    /\ num.period = 2
    /\ Len(num.closes) = MaxRsiCloses
    /\ \A i \in 1..Len(num.closes) : num.closes[i] = 2
    /\ num.out = [ok |-> TRUE, n |-> 100, d |-> 1]

\* ---- C22: for notionalUsd > 0 and price > 0 the quantity toQtyFromUsd
\* returns is notionalUsd / price truncated downward to quantityScale
\* decimal digits: it does not exceed notionalUsd / price, and it is less
\* than one unit of the last digit below it.
C22_FloorTruncation ==
    (/\ num.fn = "toQtyFromUsd"
     /\ num.done
     /\ num.notionalUsd > 0
     /\ num.price > 0) =>
        LET units == num.out \div Fine
            exact == num.notionalUsd * Pow(10, num.quantityScale)
        IN /\ num.out = units * Fine
           /\ units * num.price <= exact
           /\ exact < (units + 1) * num.price

\* ---- C23: toQtyFromUsd fails exactly when notionalUsd <= 0 or price <= 0;
\* when an open is attempted on a candle whose close it rejects, the
\* executor is not called, inflight is not set and no slot is consumed:
\* the fields are those enterBand left.
C23_InvalidSizingFailsEarly ==
    /\ \A n \in (-1)..NotionalUsd, c \in SizingCandles :
          (toQtyFromUsd(n, c.close, QuantityScale) = InvalidSizing)
          <=> (n <= 0 \/ c.close <= 0)
    /\ \A c \in SizingCandles :
          (AttemptsOpen(c) /\ c.close <= 0)
          => /\ Outcome(c).call = NoCall
             /\ Outcome(c).pm = AttemptPm(c)
             /\ ~Outcome(c).pm.inflight

\* The state such an attempt leaves: the close 0 was appended and put the
\* oscillator in the lower band, the band was entered by a flat runner that
\* is armed with a free slot, and nothing is in flight.
C23_Witness ==
    /\ closes # <<>>
    /\ closes[Len(closes)] = 0
    /\ Zone(calculateRSI(closes, Period)) = "lower"
    /\ pm = [PmInit EXCEPT !.cycleSide = "lower"]
    /\ maxOrdersPerCycle > 0
    /\ calls = <<>>
    /\ submitted = NoCall

\* ---- C24: for each side getMaxMatchingPrices returns the first level, in
\* the order of the book, whose own quantity is at least the requested
\* one, and no level when no single level is (quantities are not summed
\* across levels); an open BUY is submitted at the ask result and an open
\* SELL at the bid result.
FirstCovering(levels, quantity, found) ==
    IF \E k \in 1..Len(levels) : levels[k].q >= quantity
    THEN \E k \in 1..Len(levels) :
            /\ found = levels[k]
            /\ levels[k].q >= quantity
            /\ \A j \in 1..(k - 1) : levels[j].q < quantity
    ELSE found = NoLevel

C24_DepthLookup ==
    (num.fn = "tradeOpen" /\ num.done) =>
        LET book == num.candle.orderBook
            qty == toQtyFromUsd(NotionalUsd, num.candle.close, QuantityScale)
            found == num.out.levels
            call == num.out.open.call
        IN /\ FirstCovering(book.bids, qty, found.bid)
           /\ FirstCovering(book.asks, qty, found.ask)
           /\ call # NoCall
                <=> IF num.side = "BUY" THEN found.ask # NoLevel
                    ELSE found.bid # NoLevel
           /\ call # NoCall
                => /\ call.side = num.side
                   /\ call.qty = qty
                   /\ call.price = IF num.side = "BUY" THEN found.ask.p
                                   ELSE found.bid.p

\* An open BUY of two units: the two bid levels hold one unit each and
\* together cover the request, yet no bid level is returned; the first ask
\* level is too small and the order goes out at the second one's price.
C24_Witness ==
    /\ num.fn = "tradeOpen"
    /\ num.done
    /\ num.side = "BUY"
    /\ num.candle.close = 1
    /\ num.candle.orderBook.bids = BidSide(<<2, 2>>)
    /\ num.candle.orderBook.asks = AskSide(<<2, 4>>)
    /\ num.out.levels.bid = NoLevel
    /\ num.out.levels.ask = [p |-> 2, q |-> 4]
    /\ num.out.open.call.price = 2

\* ---- C25: after RSIRunner.stop the price feed calls onTick no more, so
\* no tick reaches the aggregator, whether the feed's socket was
\* connecting, open or closed with a reconnect pending when stop ran.
C25_NoTickAfterStop == ~feed.late

\* ---- C26: once the runner has been stopped and removed from the registry,
\* an order update or a position update changes no field of its
\* PositionManager.
C26_UpdatesAfterStopIgnored ==
    [][(feed.wasStopped /\ ~feed.enabled) => pm' = pm]_vars

\* ---- C27: enterBand(b) changes nothing when b is the active band; when b
\* is another band it sets cycleSide to b, ordersInCycle to 0 and armed to
\* true; either way inflight, side and qtyAbs stay as they were.
C27_EnterBandFrame ==
    \A b \in {"upper", "lower"} :
        LET q == enterBand(pm, b)
        IN /\ pm.cycleSide = b => q = pm
           /\ pm.cycleSide # b
                => (q.cycleSide = b /\ q.ordersInCycle = 0 /\ q.armed)
           /\ q.inflight = pm.inflight
           /\ q.side = pm.side
           /\ q.qtyAbs = pm.qtyAbs

\* A runner holding a position in the upper band, a slot consumed, disarmed
\* and with an order in flight: entering the lower band resets the cycle,
\* entering the upper band does not.
C27_Witness ==
    /\ pm.cycleSide = "upper"
    /\ pm.ordersInCycle > 0
    /\ ~pm.armed
    /\ pm.inflight
    /\ pm.side = "SHORT"
    /\ enterBand(pm, "lower")
         = [pm EXCEPT !.cycleSide = "lower", !.ordersInCycle = 0, !.armed = TRUE]
    /\ enterBand(pm, "upper") = pm

\* ---- C28: outside paper mode, while a submission call is awaited inflight
\* is true and ordersInCycle and armed hold the values they had when the
\* call was made; the step in which an awaited call returns increments
\* ordersInCycle and clears armed.
C28_HeldWhileAwaited ==
    Gated => \A i \in 1..Len(calls) :
                /\ pm.inflight
                /\ pm.ordersInCycle = calls[i].ordersAt
                /\ pm.armed = calls[i].armedAt

C28_ConsumedOnReturn ==
    (Gated /\ settled' = "returned")
    => (pm'.ordersInCycle = pm.ordersInCycle + 1 /\ ~pm'.armed)

C28_SlotPerCompletedCall == []C28_HeldWhileAwaited /\ [][C28_ConsumedOnReturn]_vars

\* ---- C29: a consumption counts in the cycle of the band its submission
\* was made on: when the active band is no longer the one an awaited call
\* was made on, the return of that call leaves ordersInCycle and armed of
\* the new band as they are.
C29_ConsumptionInOwnBand ==
    Gated => \A i \in 1..Len(calls) :
                calls[i].band # pm.cycleSide
                => LET q == afterAwait(pm, mode, "returned", maxOrdersPerCycle)
                   IN /\ q.ordersInCycle = pm.ordersInCycle
                      /\ q.armed = pm.armed

\* ---- C30: while inflight is true a sealed candle still appends its close
\* and the oscillator is computed over the series with it; when the value
\* is outside [low, high] the candle submits nothing and leaves cycleSide,
\* ordersInCycle and armed as they were, also when the value lies in the
\* band opposite to the active one.
C30_InflightCandleIsInert ==
    pm.inflight =>
        \A c \in Candles :
            LET cl == pushClose(closes, c.close)
            IN /\ cl[Len(cl)] = c.close
               /\ Len(cl) = Min(Len(closes) + 1, MaxCloses)
               /\ \A k \in 1..(Len(cl) - 1) :
                     cl[k] = closes[k + Len(closes) + 1 - Len(cl)]
               /\ Zone(calculateRSI(cl, Period)) \in {"upper", "lower"}
                    => /\ Outcome(c).call = NoCall
                       /\ Outcome(c).pm.cycleSide = pm.cycleSide
                       /\ Outcome(c).pm.ordersInCycle = pm.ordersInCycle
                       /\ Outcome(c).pm.armed = pm.armed

\* A call made on the upper band is awaited, inflight has been true ever
\* since, and the candle evaluated last put the oscillator in the lower
\* band: the active band is still the upper one.
C30_Witness ==
    /\ pm.inflight
    /\ Len(calls) = 1
    /\ calls[1].held
    /\ calls[1].band = "upper"
    /\ Zone(calculateRSI(closes, Period)) = "lower"
    /\ pm.cycleSide = "upper"
    /\ pm.ordersInCycle = calls[1].ordersAt
    /\ pm.armed
    /\ submitted = NoCall

\* ---- C31: the close series never holds more than the retention length;
\* whatever the runner's state (warming up, neutral, order in flight,
\* disarmed, cap reached), a sealed candle appends exactly its close at the
\* end, and at the retention length the oldest close is the one dropped,
\* the others keeping their order.
C31_CloseSeries ==
    /\ Len(closes) <= MaxCloses
    /\ \A c \in Candles :
          LET cl == pushClose(closes, c.close)
              drop == IF Len(closes) = MaxCloses THEN 1 ELSE 0
          IN /\ Len(cl) = Len(closes) + 1 - drop
             /\ cl[Len(cl)] = c.close
             /\ \A k \in 1..(Len(cl) - 1) : cl[k] = closes[k + drop]

\* The series is full, with an order in flight and the runner disarmed at
\* its cap; the closes differ, so the next candle's eviction shows.
C31_Witness ==
    /\ Len(closes) = MaxCloses
    /\ closes[1] # closes[2]
    /\ pm.inflight
    /\ ~pm.armed
    /\ pm.ordersInCycle = maxOrdersPerCycle
    /\ maxOrdersPerCycle > 0

\* ---- C32: a close or error event of the account feed's current connection
\* leaves exactly one reconnect scheduled; an event that arrives while a
\* reconnect is pending schedules no other; the timer that fires starts a
\* new connection, which becomes the current one; and a current connection
\* that closed or failed is always replaced by a later one.
Ended(b, s) == b.socks[s].st \in {"errored", "closed"}

C32_ReconnectOnce ==
    /\ [][\A s \in 1..Len(lk.socks) :
            (lk'.socks[s].st # lk.socks[s].st /\ Ended(lk', s))
            => /\ Len(lk'.socks) = Len(lk.socks)
               /\ s = lk.ws => (lk'.reconnecting /\ lk'.timers = 1)
               /\ lk.reconnecting => lk'.timers = lk.timers]_vars
    /\ [][lk'.timers < lk.timers
            => /\ ~lk'.reconnecting
               /\ lk'.ws = Len(lk.socks) + 1
               /\ lk'.socks = Append(lk.socks, NewSocket)]_vars
    /\ \A k \in 1..MaxBusSockets :
          (lk.ws = k /\ Ended(lk, k)) ~> (lk.ws > k)

\* The current connection failed and then closed with the reconnect still
\* pending: two events, one timer.
C32_Witness ==
    /\ lk.ws # 0
    /\ lk.socks[lk.ws].st = "closed"
    /\ lk.reconnecting
    /\ lk.timers = 1
    /\ Len(lk.socks) > 1

\* ---- C39: at most one connection of the account feed delivers events.
C39_SingleConnection == Cardinality(Delivering(lk)) <= 1

\* ---- C33: in paper mode activeBand, ordersInCycle, armed and inflight keep
\* the values the runner was built with, and a candle makes one executor
\* call with quantity '0' when its oscillator value is above high (a sell)
\* or below low (a buy), and none during warm-up or in the neutral zone.
C33_PaperMode ==
    mode = "paper" =>
        /\ pm.cycleSide = PmInit.cycleSide
        /\ pm.ordersInCycle = PmInit.ordersInCycle
        /\ pm.armed = PmInit.armed
        /\ pm.inflight = PmInit.inflight
        /\ submitted # NoCall => (submitted.kind = "paper" /\ submitted.qty = 0)
        /\ \A c \in Candles :
              LET o == Outcome(c) IN
              /\ o.pm = pm
              /\ AttemptZone(c) = "upper"
                    => (o.call.kind = "paper" /\ o.call.side = "SELL" /\ o.call.qty = 0)
              /\ AttemptZone(c) = "lower"
                    => (o.call.kind = "paper" /\ o.call.side = "BUY" /\ o.call.qty = 0)
              /\ AttemptZone(c) \in {"warmup", "neutral"} => o.call = NoCall

\* A paper runner with a position has just made a sell call while another
\* call is still awaited.
C33_Witness ==
    /\ mode = "paper"
    /\ submitted.kind = "paper"
    /\ submitted.side = "SELL"
    /\ Len(calls) = 2
    /\ pm.side = "LONG"

\* ---- C36: when the executor places no live order (mode is not "real"),
\* the runner has no order in flight and has consumed no cycle slot.
C36_ModesAgree == mode # "real" => (~pm.inflight /\ pm.ordersInCycle = 0)

\* ---- C37: an order tradeOpen submits has a quantity greater than zero.
C37_OpenQtyPositive ==
    (num.fn = "tradeOpen" /\ num.done /\ num.out.open.call # NoCall)
        => num.out.open.call.qty > 0

\* ---- C38: under timestamps that never decrease, a tick folded into a
\* candle lies in that candle's bucket, every bucket starts at a multiple of
\* intervalMs, and the candle emitted next starts later than the candle
\* emitted last.
C38_BucketsAdvance ==
    /\ \A i \in DOMAIN agg.objs : agg.objs[i].start % IntervalMs = 0
    /\ \A t \in {u \in Ticks : u.ts >= now} :
          LET r == ingest(agg, t)
              c == r.objs[r.cur]
          IN c.start <= t.ts /\ t.ts < c.end
    /\ (agg.cur # NoCandle /\ agg.snap # <<>>)
          => flush(agg).snap[1].start > agg.snap[1].start

\* ---- C35: stop() initiates no order submission. Once the runner is
\* stopped no tick is ingested here, so the only step that can have
\* initiated a call in a stopped runner is stop() itself.
C35_StopSubmitsNothing == feed.wasStopped => submitted = NoCall

\* ---- C34: with maxOrdersPerCycle >= 1, a gated runner whose ordersInCycle
\* has reached maxOrdersPerCycle submits nothing on a candle of its band or
\* of the neutral zone, and neither such a candle nor the settling of an
\* awaited call nor an account update changes ordersInCycle or the band:
\* the runner stays capped, armed or not, until a candle of the opposite
\* band is evaluated.
Capped == Gated /\ maxOrdersPerCycle >= 1 /\ pm.ordersInCycle = maxOrdersPerCycle

StaysCapped(p) ==
    p.ordersInCycle = maxOrdersPerCycle /\ p.cycleSide = pm.cycleSide

C34_CapHolds ==
    Capped =>
        /\ \A c \in Candles :
              AttemptZone(c) \in {pm.cycleSide, "neutral", "warmup"} =>
                  (Outcome(c).call = NoCall /\ StaysCapped(Outcome(c).pm))
        /\ \A o \in {"returned", "threw"} :
              StaysCapped(afterAwait(pm, mode, o, maxOrdersPerCycle))
        /\ \A u \in OrderUpdates : StaysCapped(orderUpdateHandler(pm, u))
        /\ \A u \in PositionUpdates : StaysCapped(positionUpdateHandler(pm, u))

\* A capped runner whose last candle was one of its band, re-armed by a
\* neutral candle before it, with nothing awaited and no order in flight:
\* only the slot count stands between the next candle and an order.
C34_Witness ==
    /\ Capped
    /\ pm.armed
    /\ ~pm.inflight
    /\ calls = <<>>
    /\ pm.cycleSide = "upper"
    /\ Zone(calculateRSI(closes, Period)) = "upper"
    /\ submitted = NoCall
    /\ settled = "none"

=============================================================================
